---- MODULE Spec2Model ----
(***************************************************************************)
(* csvpretty: the column-width allocator (calculate_column_widths) and the *)
(* line wrapper (wrap_text, wrap_text_word, wrap_text_char) of             *)
(* src/src/main.rs, as state machines.                                     *)
(*                                                                         *)
(* A string is a sequence of glyphs; a glyph is a one-character string.    *)
(* The display width of a glyph is what UnicodeWidthStr::width gives for   *)
(* it: 0 (zero-width), 1 or 2 (double-width).                              *)
(***************************************************************************)
EXTENDS Integers, Sequences, FiniteSets, TLC

VARIABLES
    \* ---- calculate_column_widths --------------------------------------
    natural_widths,    \* Vec<usize>: natural width of every column
    terminal_width,    \* usize
    row_num_width,     \* usize: 0 when line numbers are off
    wrap_mode,         \* WrapMode: "Word", "Char" or "None"
    widths,            \* Vec<usize>: the result being built
    remaining,         \* usize
    unallocated_cols,  \* usize; a value wrapped below 0 is held as its
                       \* representative -k of 2^64 - k
    unallocated_natural,
    per_col_min,
    leftover,
    pos,               \* position of the running loop in sorted_cols
    pc,                \* where calculate_column_widths is
    \* ---- wrap_text ----------------------------------------------------
    text,              \* &str: the cell's text
    max_width,         \* usize
    words,             \* the words split_whitespace has still to yield
    chars,             \* the chars text.chars() has still to yield
    lines,             \* Vec<String>
    current_line,      \* String
    current_width,     \* usize
    wpc,               \* where wrap_text is
    \* ---- main, render_table ------------------------------------------
    input,             \* what standard input holds: "empty", "bad_header",
                       \* "bad_record" or "ok"
    headers,           \* csv::StringRecord: one string per column
    records,           \* Vec<Vec<String>>
    show_line_numbers, \* bool
    output,            \* the lines written to standard output so far
    row_idx,           \* render_table: index of the next data row to print
    mpc                \* where main is

alloc_vars == <<natural_widths, terminal_width, row_num_width, widths, remaining,
                unallocated_cols, unallocated_natural, per_col_min, leftover, pos, pc>>
wrap_vars == <<text, max_width, words, chars, lines, current_line, current_width, wpc>>
render_vars == <<input, headers, records, show_line_numbers, output, row_idx, mpc>>
vars == <<alloc_vars, wrap_vars, render_vars, wrap_mode>>

\* ------------------------------------------------------------------ bounds
MaxCols == 3
MaxShort == 6
MaxLen == 5
MaxWidth == 3

\* Natural widths tried: every short width (around the minimum width) and two
\* widths of columns that need wrapping.
LongWidths == {12, 20}
NaturalChoices == (0..MaxShort) \cup LongWidths
\* Terminal widths tried: narrower than the overhead, 5 per column for
\* MaxCols columns, and wide enough for many inputs to fit.
TerminalWidths == {0, 24, 40}
RowNumWidths == {0, 1}

\* ------------------------------------------------------- program constants
MinimumWidth == 5
FallbackWidth == 10
Padding == 2
ColumnOverhead == 3

WrapModes == {"Word", "Char", "None"}

\* ----------------------------------------------------------------- helpers
Max(a, b) == IF a >= b THEN a ELSE b

SaturatingSub(a, b) == IF a >= b THEN a - b ELSE 0

RECURSIVE SumSeq(_)
SumSeq(s) == IF s = <<>> THEN 0 ELSE Head(s) + SumSeq(Tail(s))

Repeat(x, n) == [i \in 1..n |-> x]

\* ======================================================================
\* calculate_column_widths
\* ======================================================================
num_cols == Len(natural_widths)

\* main.rs:222-227
Overhead(n, rnw) ==
    LET row_overhead == IF rnw > 0 THEN rnw + 3 ELSE 0
    IN  row_overhead + (n * ColumnOverhead)

\* main.rs:229
available_width == SaturatingSub(terminal_width, Overhead(num_cols, row_num_width))

\* main.rs:246
total_natural == SumSeq(natural_widths)

\* sort_by_key is a stable sort: insert p after every element whose key is <= its key
InsertByKey(s, p) ==
    LET k == Cardinality({i \in 1..Len(s) : s[i][2] <= p[2]})
    IN  SubSeq(s, 1, k) \o <<p>> \o SubSeq(s, k + 1, Len(s))

RECURSIVE SortByKey(_)
SortByKey(s) ==
    IF s = <<>> THEN <<>>
    ELSE InsertByKey(SortByKey(SubSeq(s, 1, Len(s) - 1)), s[Len(s)])

\* main.rs:271-275: (column index, natural width), ascending by natural width
sorted_cols == SortByKey([i \in 1..num_cols |-> <<i, natural_widths[i]>>])

\* unallocated_cols -= 1 on a usize: at 0 the subtraction overflows, which
\* panics in a build with overflow checks and wraps to 2^64 - 1 in one without.
DecrementOutcomes(n) == IF n = 0 THEN {"panic", "wrap"} ELSE {"ok"}

\* main.rs:198-213
UnconstrainedWidths(nat) == [i \in 1..Len(nat) |-> nat[i] + Padding]

\* FallbackWidths giving the minimum width instead of the uniform width
FallbackWidthsMinimum(n) == Repeat(MinimumWidth, n)

\* main.rs:248-250
FallbackWidths(n) == Repeat(FallbackWidth, n)

\* FitWidths without the leftover going to the last column
FitWidthsNoLeftover(nat, avail) == nat

\* main.rs:256-265
FitWidths(nat, avail) ==
    LET used == SumSeq(nat)
        n == Len(nat)
    IN  IF used < avail THEN [nat EXCEPT ![n] = nat[n] + (avail - used)] ELSE nat

\* LastColumnAlloc without the floor of the minimum width
LastColumnAllocNoFloor(lo) == lo

\* main.rs:310
LastColumnAlloc(lo) == Max(lo, MinimumWidth)

\* main.rs:313
ProportionalAlloc(rem, natural, unat, pcm) ==
    Max(Max((rem * natural) \div unat, pcm), MinimumWidth)

\* main.rs:317
EvenAlloc(pcm) == Max(pcm, MinimumWidth)

\* main.rs:297-300
UnallocatedNatural(sc, w) ==
    SumSeq([i \in 1..Len(sc) |-> IF w[sc[i][1]] = 0 THEN sc[i][2] ELSE 0])

AllocIdle ==
    /\ widths = <<>> /\ remaining = 0 /\ unallocated_cols = 0
    /\ unallocated_natural = 0 /\ per_col_min = 0 /\ leftover = 0 /\ pos = 0

\* main.rs:195-278: everything up to the first loop
CalcStart ==
    /\ pc = "start"
    /\ IF wrap_mode = "None"
       THEN /\ widths' = UnconstrainedWidths(natural_widths)
            /\ pc' = "done"
            /\ UNCHANGED <<remaining, unallocated_cols, pos>>
       ELSE IF total_natural = 0
       THEN /\ widths' = FallbackWidths(num_cols)
            /\ pc' = "done"
            /\ UNCHANGED <<remaining, unallocated_cols, pos>>
       ELSE IF total_natural <= available_width
       THEN /\ widths' = FitWidths(natural_widths, available_width)
            /\ pc' = "done"
            /\ UNCHANGED <<remaining, unallocated_cols, pos>>
       ELSE /\ widths' = Repeat(0, num_cols)
            /\ remaining' = available_width
            /\ unallocated_cols' = num_cols
            /\ pos' = 1
            /\ pc' = "first_pass"
    /\ UNCHANGED <<natural_widths, terminal_width, row_num_width, wrap_mode,
                   unallocated_natural, per_col_min, leftover, wrap_vars, render_vars>>

\* main.rs:281-293: one iteration of the walk over the smallest columns
FirstPassIter ==
    /\ pc = "first_pass"
    /\ LET col_idx == sorted_cols[pos][1]
           natural == sorted_cols[pos][2]
           avg_remaining == remaining \div unallocated_cols
       IN  IF natural <= avg_remaining
           THEN \E outcome \in DecrementOutcomes(unallocated_cols) :
                  IF outcome = "panic"
                  THEN /\ pc' = "panic"
                       /\ UNCHANGED <<widths, remaining, unallocated_cols, pos>>
                  ELSE /\ widths' = [widths EXCEPT ![col_idx] = natural]
                       /\ remaining' = SaturatingSub(remaining, natural)
                       /\ unallocated_cols' = unallocated_cols - 1
                       /\ pos' = pos + 1
                       /\ pc' = IF pos + 1 > num_cols THEN "share" ELSE "first_pass"
           ELSE /\ pc' = "share"
                /\ UNCHANGED <<widths, remaining, unallocated_cols, pos>>
    /\ UNCHANGED <<natural_widths, terminal_width, row_num_width, wrap_mode,
                   unallocated_natural, per_col_min, leftover, wrap_vars, render_vars>>

\* main.rs:296-303: the sums taken before the second loop
ShareStart ==
    /\ pc = "share"
    /\ IF unallocated_cols > 0
       THEN /\ unallocated_natural' = UnallocatedNatural(sorted_cols, widths)
            /\ per_col_min' = remaining \div unallocated_cols
            /\ leftover' = remaining
            /\ pos' = 1
            /\ pc' = "second_pass"
       ELSE /\ pc' = "done"
            /\ UNCHANGED <<unallocated_natural, per_col_min, leftover, pos>>
    /\ UNCHANGED <<natural_widths, terminal_width, row_num_width, wrap_mode,
                   widths, remaining, unallocated_cols, wrap_vars, render_vars>>

\* main.rs:305-321: one iteration of the loop over the columns still at 0
SecondPassIter ==
    /\ pc = "second_pass"
    /\ pos <= num_cols
    /\ LET col_idx == sorted_cols[pos][1]
           natural == sorted_cols[pos][2]
       IN  IF widths[col_idx] = 0
           THEN \E outcome \in DecrementOutcomes(unallocated_cols) :
                  IF outcome = "panic"
                  THEN /\ pc' = "panic"
                       /\ UNCHANGED <<widths, unallocated_cols, leftover, pos>>
                  ELSE /\ unallocated_cols' = unallocated_cols - 1
                       /\ pos' = pos + 1
                       /\ pc' = "second_pass"
                       /\ IF unallocated_cols - 1 = 0
                          THEN /\ widths' = [widths EXCEPT ![col_idx] = LastColumnAlloc(leftover)]
                               /\ UNCHANGED leftover
                          ELSE IF unallocated_natural > 0
                          THEN LET alloc == ProportionalAlloc(remaining, natural,
                                                              unallocated_natural, per_col_min)
                               IN  /\ widths' = [widths EXCEPT ![col_idx] = alloc]
                                   /\ leftover' = SaturatingSub(leftover, alloc)
                          ELSE /\ widths' = [widths EXCEPT ![col_idx] = EvenAlloc(per_col_min)]
                               /\ leftover' = SaturatingSub(leftover, EvenAlloc(per_col_min))
           ELSE /\ pos' = pos + 1
                /\ UNCHANGED <<widths, unallocated_cols, leftover, pc>>
    /\ UNCHANGED <<natural_widths, terminal_width, row_num_width, wrap_mode,
                   remaining, unallocated_natural, per_col_min, wrap_vars, render_vars>>

\* main.rs:325: the second loop is over, widths is returned
Return ==
    /\ pc = "second_pass"
    /\ pos > num_cols
    /\ pc' = "done"
    /\ UNCHANGED <<natural_widths, terminal_width, row_num_width, wrap_mode, widths,
                   remaining, unallocated_cols, unallocated_natural, per_col_min,
                   leftover, pos, wrap_vars, render_vars>>

RenderIdle ==
    /\ input = "ok" /\ headers = <<>> /\ records = <<>>
    /\ show_line_numbers = FALSE /\ output = <<>> /\ row_idx = 0
    /\ mpc = "idle"

WrapIdle ==
    /\ text = <<>> /\ max_width = 0 /\ words = <<>> /\ chars = <<>> /\ lines = <<>>
    /\ current_line = <<>> /\ current_width = 0 /\ wpc = "idle"

NaturalVectors == UNION {[1..n -> NaturalChoices] : n \in 1..MaxCols}

InitAlloc ==
    /\ natural_widths \in NaturalVectors
    /\ terminal_width \in TerminalWidths
    /\ row_num_width \in RowNumWidths
    /\ wrap_mode \in WrapModes
    /\ pc = "start"
    /\ AllocIdle
    /\ WrapIdle
    /\ RenderIdle

NextAlloc == CalcStart \/ FirstPassIter \/ ShareStart \/ SecondPassIter \/ Return

SpecAlloc == InitAlloc /\ [][NextAlloc]_vars

\* ======================================================================
\* wrap_text, wrap_text_word, wrap_text_char
\* ======================================================================
\* The glyphs tried: a space, a single-width letter, a zero-width character
\* (a combining mark, U+200B) and a double-width character (a CJK ideograph).
Glyphs == {" ", "a", "z", "W"}

\* char::is_whitespace, as split_whitespace uses it
IsWhitespace(g) == g \in {" ", "\n"}

\* UnicodeWidthStr::width of a one-character string
GlyphWidth(g) == CASE g = "z" -> 0 [] g = "W" -> 2 [] OTHER -> 1

\* UnicodeWidthStr::width: the sum of the widths of the characters
RECURSIVE StrWidth(_)
StrWidth(s) == IF s = <<>> THEN 0 ELSE GlyphWidth(Head(s)) + StrWidth(Tail(s))

\* str::split_whitespace: the maximal runs of non-whitespace characters, in order
RECURSIVE SplitWhitespace(_)
SplitWhitespace(s) ==
    IF s = <<>> THEN <<>>
    ELSE IF IsWhitespace(Head(s)) THEN SplitWhitespace(Tail(s))
    ELSE LET stops == {i \in 1..Len(s) : IsWhitespace(s[i])}
             n == IF stops = {} THEN Len(s)
                  ELSE (CHOOSE i \in stops : \A j \in stops : i <= j) - 1
         IN  <<SubSeq(s, 1, n)>> \o SplitWhitespace(SubSeq(s, n + 1, Len(s)))

\* The accumulators of both wrapping loops
Acc(l, cl, cw) == [lines |-> l, current_line |-> cl, current_width |-> cw]
EmptyAcc == Acc(<<>>, <<>>, 0)

\* FitsOnLine with the bound off by one (the line may run one column over)
FitsOnLineSlack(cw, ch_width, mw) == cw + ch_width <= mw + 1

\* FitsOnLine with < for <= (a line is closed one column early)
FitsOnLineStrict(cw, ch_width, mw) == cw + ch_width < mw

\* main.rs:536
FitsOnLine(cw, ch_width, mw) == cw + ch_width <= mw

\* main.rs:495
WordFitsOnLine(cw, word_width, mw) == cw + 1 + word_width <= mw

\* main.rs:533-546: one iteration of the loop over text.chars()
CharStep(acc, ch, mw) ==
    LET ch_width == GlyphWidth(ch)
    IN  IF FitsOnLine(acc.current_width, ch_width, mw)
        THEN Acc(acc.lines, Append(acc.current_line, ch), acc.current_width + ch_width)
        ELSE Acc(IF acc.current_line # <<>> THEN Append(acc.lines, acc.current_line)
                 ELSE acc.lines,
                 <<ch>>, ch_width)

\* main.rs:548-556
CharFinishLines(acc) ==
    LET l == IF acc.current_line # <<>> THEN Append(acc.lines, acc.current_line)
             ELSE acc.lines
    IN  IF l = <<>> THEN << <<>> >> ELSE l

\* The loop of main.rs:533-546; every iteration's accumulator is evaluated
\* (next.current_width is a number) before the next iteration starts.
RECURSIVE CharLoop(_, _, _)
CharLoop(acc, cs, mw) ==
    IF cs = <<>> THEN acc
    ELSE LET next == CharStep(acc, Head(cs), mw)
         IN  IF next.current_width \in Nat THEN CharLoop(next, Tail(cs), mw) ELSE next

\* main.rs:528-557
wrap_text_char(t, mw) == CharFinishLines(CharLoop(EmptyAcc, t, mw))

\* WordAppend without the separating space
WordAppendNoSpace(cl, word) == cl \o word

\* main.rs:497-498
WordAppend(cl, word) == Append(cl, " ") \o word

\* main.rs:481-515: one iteration of the loop over text.split_whitespace()
WordStep(acc, word, mw) ==
    LET word_width == StrWidth(word)
    IN  IF acc.current_width = 0
        THEN IF word_width <= mw
             THEN Acc(acc.lines, word, word_width)
             ELSE Acc(acc.lines \o wrap_text_char(word, mw),
                      acc.current_line, acc.current_width)
        ELSE IF WordFitsOnLine(acc.current_width, word_width, mw)
        THEN Acc(acc.lines, WordAppend(acc.current_line, word),
                 acc.current_width + 1 + word_width)
        ELSE IF word_width <= mw
        THEN Acc(Append(acc.lines, acc.current_line), word, word_width)
        ELSE Acc(Append(acc.lines, acc.current_line) \o wrap_text_char(word, mw),
                 <<>>, 0)

\* main.rs:517-525
WordFinishLines(acc) ==
    LET l == IF acc.current_line # <<>> THEN Append(acc.lines, acc.current_line)
             ELSE acc.lines
    IN  IF l = <<>> THEN << <<>> >> ELSE l

\* The loop of main.rs:481-515, evaluated like CharLoop
RECURSIVE WordLoop(_, _, _)
WordLoop(acc, ws, mw) ==
    IF ws = <<>> THEN acc
    ELSE LET next == WordStep(acc, Head(ws), mw)
         IN  IF next.current_width \in Nat THEN WordLoop(next, Tail(ws), mw) ELSE next

\* main.rs:476-526
wrap_text_word(t, mw) == WordFinishLines(WordLoop(EmptyAcc, SplitWhitespace(t), mw))

\* wrap_text returning no line at all for the empty text
EmptyTextNoLines == <<>>

\* main.rs:459-461
EmptyTextLines == << <<>> >>

\* main.rs:458-474, and the first lines of the function it dispatches to
WrapCall ==
    /\ wpc = "call"
    /\ IF text = <<>>
       THEN /\ lines' = EmptyTextLines
            /\ wpc' = "done"
            /\ UNCHANGED <<words, chars, current_line, current_width>>
       ELSE IF wrap_mode = "None"
       THEN /\ lines' = <<text>>
            /\ wpc' = "done"
            /\ UNCHANGED <<words, chars, current_line, current_width>>
       ELSE IF wrap_mode = "Word"
       THEN /\ words' = SplitWhitespace(text)
            /\ lines' = <<>> /\ current_line' = <<>> /\ current_width' = 0
            /\ wpc' = "word_loop"
            /\ UNCHANGED chars
       ELSE /\ chars' = text
            /\ lines' = <<>> /\ current_line' = <<>> /\ current_width' = 0
            /\ wpc' = "char_loop"
            /\ UNCHANGED words
    /\ UNCHANGED <<text, max_width, wrap_mode, alloc_vars, render_vars>>

\* main.rs:481-515
WordIter ==
    /\ wpc = "word_loop"
    /\ words # <<>>
    /\ LET acc == WordStep(Acc(lines, current_line, current_width), Head(words), max_width)
       IN  /\ lines' = acc.lines
           /\ current_line' = acc.current_line
           /\ current_width' = acc.current_width
    /\ words' = Tail(words)
    /\ UNCHANGED <<text, max_width, wrap_mode, chars, wpc, alloc_vars, render_vars>>

\* main.rs:517-525
WordFinish ==
    /\ wpc = "word_loop"
    /\ words = <<>>
    /\ lines' = WordFinishLines(Acc(lines, current_line, current_width))
    /\ wpc' = "done"
    /\ UNCHANGED <<text, max_width, wrap_mode, words, chars, current_line,
                   current_width, alloc_vars, render_vars>>

\* main.rs:533-546
CharIter ==
    /\ wpc = "char_loop"
    /\ chars # <<>>
    /\ LET acc == CharStep(Acc(lines, current_line, current_width), Head(chars), max_width)
       IN  /\ lines' = acc.lines
           /\ current_line' = acc.current_line
           /\ current_width' = acc.current_width
    /\ chars' = Tail(chars)
    /\ UNCHANGED <<text, max_width, wrap_mode, words, wpc, alloc_vars, render_vars>>

\* main.rs:548-556
CharFinish ==
    /\ wpc = "char_loop"
    /\ chars = <<>>
    /\ lines' = CharFinishLines(Acc(lines, current_line, current_width))
    /\ wpc' = "done"
    /\ UNCHANGED <<text, max_width, wrap_mode, words, chars, current_line,
                   current_width, alloc_vars, render_vars>>

Texts == UNION {[1..n -> Glyphs] : n \in 0..MaxLen}

\* The long word of the word-wrap scenario: 34 single-width letters, at width 10
ScenarioInputs == {<<[i \in 1..34 |-> "a"], 10>>}

WrapInputs == (Texts \X (0..MaxWidth)) \cup ScenarioInputs

InitWrap ==
    /\ \E in \in WrapInputs : text = in[1] /\ max_width = in[2]
    /\ wrap_mode \in WrapModes
    /\ words = <<>> /\ chars = <<>> /\ lines = <<>>
    /\ current_line = <<>> /\ current_width = 0
    /\ wpc = "call"
    /\ natural_widths = <<>> /\ terminal_width = 0 /\ row_num_width = 0
    /\ pc = "idle"
    /\ AllocIdle
    /\ RenderIdle

NextWrap == WrapCall \/ WordIter \/ WordFinish \/ CharIter \/ CharFinish

SpecWrap == InitWrap /\ [][NextWrap]_vars

\* ======================================================================
\* Claims about calculate_column_widths (checked under SpecAlloc)
\* ======================================================================
Min(a, b) == IF a <= b THEN a ELSE b

Constrained == wrap_mode \in {"Word", "Char"}
Returned == pc = "done"
Oversubscribed == Constrained /\ total_natural > available_width

\* C1 (as claimed): in constrained mode every returned width is >= the
\* minimum width 5, in the fits-naturally branch, for the columns granted
\* their natural width and for the wrap-set columns alike.
C1_EveryWidthAtLeastMinimum ==
    (Returned /\ Constrained) =>
        \A i \in 1..num_cols : widths[i] >= MinimumWidth

\* C1 (amended): in constrained mode every returned width is >= the smaller
\* of the minimum width 5 and the column's natural width: a column that is
\* not given at least its natural width is given at least 5.
C1_WidthAtLeastMinimumOrNatural ==
    (Returned /\ Constrained) =>
        \A i \in 1..num_cols : widths[i] >= Min(MinimumWidth, natural_widths[i])

\* C1 witness: the waterfall branch has returned, a short non-empty column
\* kept at its natural width below 5, and the last wrapped column raised to
\* 5 because less than 5 was left over.
C1_Witness ==
    /\ Returned /\ Oversubscribed /\ leftover < MinimumWidth
    /\ \E i \in 1..num_cols :
          widths[i] = natural_widths[i] /\ 1 <= widths[i] /\ widths[i] < MinimumWidth
    /\ \E j \in 1..num_cols : widths[j] = MinimumWidth /\ natural_widths[j] > MinimumWidth

\* Every column has some content, and the budget covers 5 per column: the
\* inputs on which neither a floor of 5 nor an empty column has to break
\* the budget.
NoEmptyColumn == \A i \in 1..num_cols : natural_widths[i] >= 1
BudgetCoversMinimum == available_width >= num_cols * MinimumWidth

\* C2: whenever the oversubscribed (waterfall) branch is taken, the sum of
\* the returned widths equals available_width exactly. Stated here for the
\* inputs whose budget covers 5 per column and whose columns are all
\* non-empty, where no floor forces the sum above the budget.
C2_WaterfallSumEqualsAvailable ==
    (Returned /\ Oversubscribed /\ BudgetCoversMinimum /\ NoEmptyColumn) =>
        SumSeq(widths) = available_width

\* C3: in constrained mode, whenever available_width >= 5 per column, the
\* allocated widths plus the per-column and row-number overhead do not
\* exceed the terminal width. Stated here for the waterfall branch over
\* non-empty columns, the case of several wrap-set columns raised to their
\* floor.
C3_FitsTerminalWhenBudgetCoversMinimum ==
    (Returned /\ Oversubscribed /\ BudgetCoversMinimum /\ NoEmptyColumn) =>
        SumSeq(widths) + Overhead(num_cols, row_num_width) <= terminal_width

\* The widths C4 names: the natural widths, the last column taking the leftover
NaturalPlusLeftover ==
    [i \in 1..num_cols |->
        IF i < num_cols THEN natural_widths[i]
        ELSE natural_widths[i] + (available_width - total_natural)]

\* C4 (as claimed): in constrained mode, whenever the natural widths sum to
\* at most available_width, the sum 0 included, every column but the last
\* is returned at its natural width and the last at its natural width plus
\* the leftover.
C4_FitsBranchNaturalPlusLeftover ==
    (Returned /\ Constrained /\ total_natural <= available_width) =>
        widths = NaturalPlusLeftover

\* C4 (amended): the same, for natural widths that sum to at least 1 and at
\* most available_width (a sum of 0 takes the uniform fallback instead).
C4_FitsBranchNaturalPlusLeftoverNonZero ==
    (Returned /\ Constrained /\ 1 <= total_natural
              /\ total_natural <= available_width) =>
        widths = NaturalPlusLeftover

\* C4 witness: several columns fit with budget to spare, and the last one
\* has been returned wider than its natural width.
C4_Witness ==
    /\ Returned /\ Constrained /\ num_cols >= 2
    /\ 1 <= total_natural /\ total_natural < available_width
    /\ widths[num_cols] > natural_widths[num_cols]
    /\ widths[1] = natural_widths[1]

\* C5: calculate_column_widths is total: it never reaches an error state,
\* and the unsigned counter unallocated_cols is never decremented below 0.
C5_TotalNoCounterUnderflow ==
    pc # "panic" /\ unallocated_cols >= 0

\* C11: in constrained mode, when the natural widths sum to 0 (every header
\* and every cell empty), every column is returned at the uniform width 10,
\* whatever the terminal width.
C11_UniformFallback ==
    (Returned /\ Constrained /\ total_natural = 0) =>
        /\ Len(widths) = num_cols
        /\ \A i \in 1..num_cols : widths[i] = 10

\* C11 witness: several empty columns have been returned at 10 each on a
\* terminal of width 0, too narrow for any of them.
C11_Witness ==
    /\ Returned /\ Constrained /\ total_natural = 0
    /\ num_cols >= 2 /\ terminal_width = 0
    /\ widths[1] = 10 /\ widths[num_cols] = 10

\* C15: in the waterfall branch every column whose natural width is <= the
\* even share of the budget at its turn, in particular every column whose
\* natural width is <= available_width / N (a column of natural width 0
\* included), is returned at exactly its natural width.
C15_SmallColumnsKeepNaturalWidth ==
    (Returned /\ Oversubscribed /\ BudgetCoversMinimum) =>
        \A i \in 1..num_cols :
            natural_widths[i] <= available_width \div num_cols =>
                widths[i] = natural_widths[i]

\* ======================================================================
\* Claims about wrap_text (checked under SpecWrap)
\* ======================================================================
WrapDone == wpc = "done"

RECURSIVE Concat(_)
Concat(l) == IF l = <<>> THEN <<>> ELSE Head(l) \o Concat(Tail(l))

\* lines.join(" ")
RECURSIVE JoinLines(_)
JoinLines(l) ==
    IF l = <<>> THEN <<>>
    ELSE IF Len(l) = 1 THEN l[1]
    ELSE l[1] \o <<" ">> \o JoinLines(Tail(l))

NotWhitespace(g) == ~IsWhitespace(g)
StripWhitespace(t) == SelectSeq(t, NotWhitespace)

LineWidths == [i \in 1..Len(lines) |-> StrWidth(lines[i])]

\* A line that is one glyph wider than the requested width
OverWideGlyph(line) == Len(line) = 1 /\ GlyphWidth(line[1]) > max_width

\* C6: for Word and Char and every width >= 1, wrap_text returns at least
\* one line and every line has display width <= width, except a line that
\* is a single glyph wider than width.
C6_LinesFitWidth ==
    (WrapDone /\ wrap_mode \in {"Word", "Char"} /\ max_width >= 1) =>
        /\ Len(lines) >= 1
        /\ \A i \in 1..Len(lines) :
              StrWidth(lines[i]) <= max_width \/ OverWideGlyph(lines[i])

\* C6 witness: under Word at width 1, one word holding a zero-width and a
\* double-width character has been split by the Char fallback, and the
\* double-width character sits alone on an over-wide line.
C6_Witness ==
    /\ WrapDone /\ wrap_mode = "Word" /\ max_width = 1
    /\ Len(SplitWhitespace(text)) = 1
    /\ \E i \in 1..Len(text) : text[i] = "z"
    /\ Len(lines) >= 2
    /\ \E i \in 1..Len(lines) : lines[i] = <<"W">>

\* C7: for every policy and every width >= 0 the empty text gives exactly
\* one line, the empty string, and no text ever gives an empty sequence of
\* lines.
C7_NeverNoLines ==
    WrapDone =>
        /\ Len(lines) >= 1
        /\ text = <<>> => lines = << <<>> >>

\* C7 witness: the empty text has been wrapped at width 0.
C7_Witness ==
    WrapDone /\ text = <<>> /\ max_width = 0 /\ lines = << <<>> >>

AllWordsFit == \A i \in 1..Len(SplitWhitespace(text)) :
                  StrWidth(SplitWhitespace(text)[i]) <= max_width

NoZeroWidthGlyph == \A i \in 1..Len(text) : GlyphWidth(text[i]) >= 1

\* C8 (as claimed): for every text and every width >= 1, joining the lines
\* of wrap_text_word with single spaces and wrapping again at the same width
\* gives the same lines, also when a word was split by the Char fallback.
\* Stated here for the texts without zero-width characters.
C8_WordWrapIdempotent ==
    (WrapDone /\ wrap_mode = "Word" /\ max_width >= 1 /\ NoZeroWidthGlyph) =>
        wrap_text_word(JoinLines(lines), max_width) = lines

\* C8 (amended): the same, for every text none of whose words is wider
\* than width (no word is split by the Char fallback).
C8_WordWrapIdempotentWhenWordsFit ==
    (WrapDone /\ wrap_mode = "Word" /\ max_width >= 1 /\ AllWordsFit) =>
        wrap_text_word(JoinLines(lines), max_width) = lines

\* C8 witness: a text of several words, none wider than width, has been
\* wrapped into several lines, one of them holding two words.
C8_Witness ==
    /\ WrapDone /\ wrap_mode = "Word" /\ max_width >= 1 /\ AllWordsFit
    /\ Len(lines) >= 2
    /\ \E i \in 1..Len(lines) : \E j \in 1..Len(lines[i]) : lines[i][j] = " "

\* C9: wrapping never drops, duplicates or reorders content: under Char the
\* lines concatenate to the text; under Word they do so once whitespace is
\* removed from both; under None the result is the one line equal to the text.
C9_ContentPreserved ==
    WrapDone =>
        /\ wrap_mode = "Char" => Concat(lines) = text
        /\ wrap_mode = "Word" =>
              StripWhitespace(Concat(lines)) = StripWhitespace(text)
        /\ wrap_mode = "None" => lines = <<text>>

CeilDiv(a, b) == (a + b - 1) \div b

\* The first word of the text is made of single-width letters only and is
\* wider than the requested width, which is >= 1
LongFirstWord ==
    /\ wrap_mode = "Word" /\ max_width >= 1
    /\ SplitWhitespace(text) # <<>>
    /\ LET w1 == SplitWhitespace(text)[1]
       IN  /\ \A i \in 1..Len(w1) : w1[i] = "a"
           /\ Len(w1) > max_width

\* The first n lines are the fragments of word: all of them exactly
\* max_width wide but the last, which holds the rest
FragmentsOf(word, n) ==
    /\ n = CeilDiv(Len(word), max_width)
    /\ Len(lines) >= n
    /\ \A i \in 1..(n - 1) : StrWidth(lines[i]) = max_width
    /\ StrWidth(lines[n]) = Len(word) - (n - 1) * max_width
    /\ Concat(SubSeq(lines, 1, n)) = word

\* C10: under Word a word of L single-width characters with 1 <= width < L
\* is split into ceil(L / width) lines, all exactly width wide but the
\* last; the line accumulator is empty after the split, and a following
\* word starts on a new line after the last fragment.
C10_LongWordSplit ==
    LongFirstWord =>
        LET ws == SplitWhitespace(text)
            n == CeilDiv(Len(ws[1]), max_width)
        IN  /\ (wpc = "word_loop" /\ Len(words) = Len(ws) - 1) =>
                  /\ FragmentsOf(ws[1], n) /\ Len(lines) = n
                  /\ current_line = <<>> /\ current_width = 0
            /\ (WrapDone /\ Len(ws) = 1) =>
                  FragmentsOf(ws[1], n) /\ Len(lines) = n
            /\ (WrapDone /\ Len(ws) = 2) =>
                  /\ FragmentsOf(ws[1], n)
                  /\ Concat(SubSeq(lines, n + 1, Len(lines))) = ws[2]

\* C10 witness: the word of 34 letters has been wrapped at width 10 into
\* lines of width 10, 10, 10 and 4.
C10_Witness ==
    /\ WrapDone /\ LongFirstWord
    /\ Len(text) = 34 /\ max_width = 10
    /\ LineWidths = <<10, 10, 10, 4>>


\* ---------------------------------------------------------------------
\* Natural widths of a table: calculate_column_widths called with headers
\* and records (main.rs:195-244)
\* ---------------------------------------------------------------------
MaxTableCols == 2
MaxRows == 2

\* Iterator::max().unwrap_or(0)
MaxOrZero(S) == IF S = {} THEN 0 ELSE CHOOSE m \in S : \A x \in S : m >= x

\* main.rs:204-208, 237-241: row.get(col_idx).map(width).unwrap_or(0)
CellWidth(row, c) == IF c <= Len(row) THEN StrWidth(row[c]) ELSE 0

\* main.rs:203-210, 236-242
MaxContentWidth(recs, c) ==
    MaxOrZero({CellWidth(recs[r], c) : r \in 1..Len(recs)})

\* ColumnNatural measuring the cells only, not the header
ColumnNaturalCellsOnly(hs, recs, c) == MaxContentWidth(recs, c)

\* main.rs:202-211, 235-243: header_width.max(max_content_width)
ColumnNatural(hs, recs, c) ==
    Max(StrWidth(hs[c]), MaxContentWidth(recs, c))

NaturalWidths(hs, recs) ==
    [c \in 1..Len(hs) |-> ColumnNatural(hs, recs, c)]

\* main.rs:196-211, 232-244: the column loop that measures the table
NaturalStart ==
    /\ pc = "natural"
    /\ natural_widths' = NaturalWidths(headers, records)
    /\ pc' = "start"
    /\ UNCHANGED <<terminal_width, row_num_width, wrap_mode, widths, remaining,
                   unallocated_cols, unallocated_natural, per_col_min, leftover,
                   pos, wrap_vars, render_vars>>

HeaderTexts == {<<>>, <<"a">>}
CellTexts == {<<>>, <<"a", "a", "a", " ", "W", "a">>}

\* rows of n cells and rows one cell short: Vec::get covers a row shorter
\* than the header
RaggedRows(n) == UNION {[1..k -> CellTexts] : k \in (n - 1)..n}

\* two small tables: one column headed A, and columns id and name
ExampleTables ==
    { [headers |-> << <<"A">> >>,
       records |-> << << <<"b", "b">> >>, << <<"c", "c", "c">> >> >>],
      [headers |-> << <<"i", "d">>, <<"n", "a", "m", "e">> >>,
       records |-> << << <<"1">>, <<"A", "l", "i", "c", "e">> >>,
                      << <<"2">>, <<"B", "o", "b">> >> >>] }

RaggedTables ==
    UNION {{[headers |-> h, records |-> rs] :
                h \in [1..n -> HeaderTexts],
                rs \in UNION {[1..r -> RaggedRows(n)] : r \in 0..MaxRows}} :
           n \in 1..MaxTableCols}

TableTerminalWidths == {0, 40}

InitTable ==
    /\ \E t \in RaggedTables \cup ExampleTables :
          headers = t.headers /\ records = t.records
    /\ terminal_width \in TableTerminalWidths
    /\ row_num_width \in RowNumWidths
    /\ wrap_mode \in WrapModes
    /\ natural_widths = <<>>
    /\ pc = "natural"
    /\ AllocIdle
    /\ WrapIdle
    /\ input = "ok" /\ show_line_numbers = FALSE /\ output = <<>>
    /\ row_idx = 0 /\ mpc = "idle"

NextTable ==
    \/ NaturalStart
    \/ CalcStart
    \/ FirstPassIter
    \/ ShareStart
    \/ SecondPassIter
    \/ Return

SpecTable == InitTable /\ [][NextTable]_vars

\* C12: under wrap policy None the width returned for each column is its
\* natural width + 2, the natural width being the largest of the display
\* widths of the header and of the column's cells (0 for a missing cell),
\* whatever the terminal width and the gutter width; header "A" with cells
\* "bb", "ccc" gives 3 + 2, and id/name with (1,Alice), (2,Bob) give 4 and 7.
C12_UnconstrainedWidthIsNaturalPlusPadding ==
    (Returned /\ wrap_mode = "None" /\ mpc = "idle") =>
        /\ Len(widths) = Len(headers)
        /\ \A c \in 1..Len(headers) :
              LET natural == widths[c] - 2
              IN  /\ natural >= StrWidth(headers[c])
                  /\ \A r \in 1..Len(records) :
                        c <= Len(records[r]) => natural >= StrWidth(records[r][c])
                  /\ \/ natural = StrWidth(headers[c])
                     \/ \E r \in 1..Len(records) :
                           c <= Len(records[r]) /\ natural = StrWidth(records[r][c])
        /\ headers = << <<"A">> >> => widths = <<5>>
        /\ headers = << <<"i", "d">>, <<"n", "a", "m", "e">> >> => widths = <<4, 7>>

\* C12 witness: a two-column table whose second row lacks its second cell
\* has been measured under None on the narrowest terminal with a gutter,
\* and a wide cell and a header-only column both show in the result.
C12_Witness ==
    /\ Returned /\ wrap_mode = "None" /\ mpc = "idle"
    /\ terminal_width = 0 /\ row_num_width = 1
    /\ Len(headers) = 2 /\ Len(records) = 2
    /\ Len(records[2]) = 1
    /\ widths[1] = 9 /\ widths[2] = 3


\* ---------------------------------------------------------------------
\* main and render_table (main.rs:85-181, 335-474)
\* ---------------------------------------------------------------------
\* usize::MAX of main.rs:121, held as the largest integer the model has;
\* under None no arithmetic is done on it
UsizeMax == 2147483647

\* usize::to_string: the decimal digits, most significant first
RECURSIVE DecimalString(_)
DecimalString(n) ==
    IF n < 10 THEN <<n>> ELSE Append(DecimalString(n \div 10), n % 10)

\* RowNumWidth with a one-digit gutter whatever the number of rows
RowNumWidthOneDigit(show, n) == IF show THEN 1 ELSE 0

\* main.rs:154-158
RowNumWidth(show, n) ==
    IF show THEN Max(Len(DecimalString(n)), 1) ELSE 0

\* main.rs:111-113: pad a row with empty strings up to the header count
PadRow(row, n) == row \o [i \in 1..(n - Len(row)) |-> <<>>]

\* main.rs:458-474
WrapText(t, mw, mode) ==
    IF t = <<>> THEN EmptyTextLines
    ELSE CASE mode = "None" -> <<t>>
           [] mode = "Word" -> wrap_text_word(t, mw)
           [] mode = "Char" -> wrap_text_char(t, mw)

\* the left gutter of a printed line: what it shows and how wide it is
Gutter(mark, number, width) == [mark |-> mark, number |-> number, width |-> width]
NoGutter == Gutter("none", 0, 0)

\* main.rs:336-343: one line of dashes
TopBorderLine(ws, rnw, show) ==
    LET row_area == IF show THEN rnw + 3 ELSE 0
    IN  [kind |-> "top", row |-> 0,
         dashes |-> row_area + SumSeq([c \in 1..Len(ws) |-> ws[c] + 3]) - 1]

\* main.rs:344-361, 362-376: runs of dashes joined by a tee
RuleLine(kind, ws, rnw, show) ==
    [kind |-> kind, row |-> 0,
     segments |-> (IF show THEN <<rnw + 2>> ELSE <<>>)
                  \o [c \in 1..Len(ws) |-> ws[c] + 2]]

\* main.rs:394-396, 439-441: " {text}{padding}"
Cell(t, width) == [text |-> t, padding |-> SaturatingSub(width, StrWidth(t))]

\* main.rs:385-409
HeaderLine(hs, ws, rnw, show) ==
    [kind |-> "header", row |-> 0,
     gutter |-> IF show THEN Gutter("blank", 0, rnw + 3) ELSE NoGutter,
     cells |-> [c \in 1..Len(hs) |-> Cell(hs[c], ws[c])]]

\* main.rs:416-419: record.iter().zip(col_widths.iter()).map(wrap_text)
WrappedCells(record, ws, mode) ==
    [c \in 1..Min(Len(record), Len(ws)) |-> WrapText(record[c], ws[c], mode)]

\* main.rs:421: .map(|lines| lines.len()).max().unwrap_or(1)
MaxLines(wrapped) ==
    IF Len(wrapped) = 0 THEN 1
    ELSE MaxOrZero({Len(wrapped[c]) : c \in 1..Len(wrapped)})

\* main.rs:425-433: "{:>width$}  |" pads the number to at least rnw columns
DataGutter(row_num, line_idx, rnw, show) ==
    IF ~show THEN NoGutter
    ELSE IF line_idx = 0
         THEN Gutter("number", row_num, Max(rnw, Len(DecimalString(row_num))) + 3)
         ELSE Gutter("blank", 0, rnw + 3)

\* main.rs:424-454: one println of print_data_row, line_idx counted from 0
DataLine(row_num, line_idx, wrapped, ws, rnw, show) ==
    [kind |-> "data", row |-> row_num,
     gutter |-> DataGutter(row_num, line_idx, rnw, show),
     cells |-> [c \in 1..Len(wrapped) |->
                  Cell(IF line_idx < Len(wrapped[c]) THEN wrapped[c][line_idx + 1]
                       ELSE <<>>,
                       ws[c])]]

\* main.rs:414-456
DataRowLines(row_num, record, ws, rnw, show, mode) ==
    LET wrapped == WrappedCells(record, ws, mode)
    IN  [l \in 1..MaxLines(wrapped) |-> DataLine(row_num, l - 1, wrapped, ws, rnw, show)]

\* BottomBorderWanted drawing the border under every policy
BottomBorderAlways(mode) == TRUE

\* main.rs:178
BottomBorderWanted(mode) == mode = "None"

\* AfterParse going on to render whatever the reader returned
AfterParseIgnoringErrors(inp) == "configure"

\* main.rs:102, 108: the ? on reader.headers() and on each record
AfterParse(inp) ==
    IF inp \in {"bad_header", "bad_record"} THEN "exit_err" ELSE "configure"


alloc_scratch == <<widths, remaining, unallocated_cols, unallocated_natural,
                   per_col_min, leftover, pos>>
table_vars == <<headers, show_line_numbers, input>>

\* main.rs:88-95: read standard input; abort on a read error or on
\* whitespace-only input
MainRead ==
    /\ mpc = "read"
    /\ mpc' = IF input = "unreadable" THEN "exit_err"
              ELSE IF input = "empty" THEN "exit_1"
              ELSE "parse"
    /\ UNCHANGED <<natural_widths, terminal_width, row_num_width, wrap_mode, pc,
                   alloc_scratch, wrap_vars, table_vars, records, output, row_idx>>

\* main.rs:97-117: parse the header and every record, padding short rows
MainParse ==
    /\ mpc = "parse"
    /\ mpc' = AfterParse(input)
    /\ records' = IF AfterParse(input) = "configure"
                  THEN [r \in 1..Len(records) |-> PadRow(records[r], Len(headers))]
                  ELSE records
    /\ UNCHANGED <<natural_widths, terminal_width, row_num_width, wrap_mode, pc,
                   alloc_scratch, wrap_vars, table_vars, output, row_idx>>

\* main.rs:119-142: the terminal width of the configuration
MainConfigure ==
    /\ mpc = "configure"
    /\ terminal_width' = IF wrap_mode = "None" THEN UsizeMax ELSE terminal_width
    /\ mpc' = "render"
    /\ UNCHANGED <<natural_widths, row_num_width, wrap_mode, pc,
                   alloc_scratch, wrap_vars, table_vars, records, output, row_idx>>

\* main.rs:145, 150-161: render_table up to the call of
\* calculate_column_widths
RenderTableStart ==
    /\ mpc = "render"
    /\ row_num_width' = RowNumWidth(show_line_numbers, Len(records))
    /\ pc' = "natural"
    /\ mpc' = "widths"
    /\ UNCHANGED <<natural_widths, terminal_width, wrap_mode,
                   alloc_scratch, wrap_vars, table_vars, records, output, row_idx>>

\* main.rs:164
PrintTop ==
    /\ mpc = "widths" /\ pc = "done"
    /\ output' = Append(output, TopBorderLine(widths, row_num_width, show_line_numbers))
    /\ mpc' = "header"
    /\ UNCHANGED <<alloc_vars, wrap_vars, wrap_mode, table_vars, records, row_idx>>

\* main.rs:167
PrintHeader ==
    /\ mpc = "header"
    /\ output' = Append(output, HeaderLine(headers, widths, row_num_width,
                                           show_line_numbers))
    /\ mpc' = "separator"
    /\ UNCHANGED <<alloc_vars, wrap_vars, wrap_mode, table_vars, records, row_idx>>

\* main.rs:170
PrintSeparator ==
    /\ mpc = "separator"
    /\ output' = Append(output, RuleLine("separator", widths, row_num_width,
                                         show_line_numbers))
    /\ row_idx' = 1
    /\ mpc' = "rows"
    /\ UNCHANGED <<alloc_vars, wrap_vars, wrap_mode, table_vars, records>>

\* main.rs:173-175: one turn of the loop, a whole print_data_row
PrintDataRow ==
    /\ mpc = "rows" /\ row_idx <= Len(records)
    /\ output' = output \o DataRowLines(row_idx, records[row_idx], widths,
                                        row_num_width, show_line_numbers, wrap_mode)
    /\ row_idx' = row_idx + 1
    /\ UNCHANGED <<alloc_vars, wrap_vars, wrap_mode, table_vars, records, mpc>>

\* main.rs:178-180, 147: the bottom border, then Ok(())
PrintBottom ==
    /\ mpc = "rows" /\ row_idx > Len(records)
    /\ BottomBorderWanted(wrap_mode)
    /\ output' = Append(output, RuleLine("bottom", widths, row_num_width,
                                         show_line_numbers))
    /\ mpc' = "exit_ok"
    /\ UNCHANGED <<alloc_vars, wrap_vars, wrap_mode, table_vars, records, row_idx>>

\* main.rs:178, 181, 147: no bottom border, Ok(())
RenderReturn ==
    /\ mpc = "rows" /\ row_idx > Len(records)
    /\ ~BottomBorderWanted(wrap_mode)
    /\ mpc' = "exit_ok"
    /\ UNCHANGED <<alloc_vars, wrap_vars, wrap_mode, table_vars, records, output,
                   row_idx>>

\* what the csv reader can return for well-formed input: a header of at
\* least one field and records of as many fields
Tables ==
    UNION {{[headers |-> h, records |-> rs] :
                h \in [1..n -> HeaderTexts],
                rs \in UNION {[1..r -> [1..n -> CellTexts]] : r \in 0..MaxRows}} :
           n \in 1..MaxTableCols}

\* tests/line_numbers_tests.rs:59-66: a table of 125 data rows
ManyRowsTable ==
    [headers |-> << <<"a">> >>, records |-> [r \in 1..125 |-> << <<"a">> >>]]

\* a quoted field that holds a line break, next to a plain one
LineBreakTable ==
    [headers |-> << <<"a">>, <<"a">> >>,
     records |-> << << <<"a", "\n", "a">>, <<"a">> >> >>]

RenderTerminalWidth == 12

InitRender ==
    /\ input \in {"unreadable", "empty", "bad_header", "bad_record", "ok"}
    /\ IF input = "ok"
       THEN \E t \in Tables \cup {ManyRowsTable, LineBreakTable} :
               /\ headers = t.headers /\ records = t.records
               /\ t = LineBreakTable => wrap_mode = "None"
       ELSE headers = <<>> /\ records = <<>>
    /\ wrap_mode \in WrapModes
    /\ show_line_numbers \in BOOLEAN
    /\ terminal_width = RenderTerminalWidth
    /\ natural_widths = <<>> /\ row_num_width = 0
    /\ pc = "idle"
    /\ AllocIdle
    /\ WrapIdle
    /\ output = <<>> /\ row_idx = 0
    /\ mpc = "read"

NextRender ==
    \/ MainRead
    \/ MainParse
    \/ MainConfigure
    \/ RenderTableStart
    \/ NaturalStart
    \/ CalcStart
    \/ FirstPassIter
    \/ ShareStart
    \/ SecondPassIter
    \/ Return
    \/ PrintTop
    \/ PrintHeader
    \/ PrintSeparator
    \/ PrintDataRow
    \/ PrintBottom
    \/ RenderReturn

SpecRender == InitRender /\ [][NextRender]_vars


\* ---------------------------------------------------------------------
\* Claims about main and render_table
\* ---------------------------------------------------------------------
Aborted == mpc \in {"exit_1", "exit_err"} \/ pc = "panic"
Finished == mpc = "exit_ok"
TableStarted == output # <<>>
DataLines == {i \in 1..Len(output) : output[i].kind = "data"}
LastLine == output[Len(output)]

\* the whole table: the three head lines, a block for every record, and
\* the closing line of the policy
FullTable ==
    /\ Len(output) >= 3
    /\ output[1].kind = "top" /\ output[2].kind = "header"
    /\ output[3].kind = "separator"
    /\ {output[i].row : i \in DataLines} = 1..Len(records)
    /\ LastLine.kind = IF wrap_mode = "None" THEN "bottom"
                       ELSE IF records = <<>> THEN "separator" ELSE "data"

\* main.rs:173: the loop over the records has a row left to print
RowPending == mpc = "rows" /\ row_idx <= Len(records)

\* some step of render_table can be taken: a row is pending, or one of the
\* border, header and return steps is enabled
CanContinue ==
    \/ RowPending
    \/ ENABLED (PrintTop \/ PrintHeader \/ PrintSeparator \/ PrintBottom
                \/ RenderReturn)

\* C13: a run of main writes either nothing or the whole table: a read
\* error, an empty input, a parse error (and a panic of the width
\* calculation) leave standard output empty, the records no longer change
\* once the first line is out, and once the top border is printed the run
\* is never stuck before the last line: it can always take a step, and
\* every step it takes prints a line or finishes the table.
C13_NoPartialOutput ==
    /\ [](Aborted => output = <<>>)
    /\ [](input # "ok" => output = <<>>)
    /\ [](TableStarted => mpc \in {"header", "separator", "rows", "exit_ok"})
    /\ [][TableStarted => records' = records]_vars
    /\ [](Finished => FullTable)
    /\ []((TableStarted /\ ~Finished) => CanContinue)
    /\ [][TableStarted => (Len(output') > Len(output) \/ Finished')]_vars

\* C13 witness: a two-row table has been written to its last line, one of
\* its rows wrapped over two lines, under a policy without bottom border.
C13_Witness ==
    /\ Finished /\ FullTable /\ wrap_mode = "Word"
    /\ Len(records) = 2 /\ Len(output) = 6

GutterComputed == mpc \in {"widths", "header", "separator", "rows", "exit_ok"}

\* C14: with line numbers the gutter width is the number of decimal digits
\* of the number of data rows, at least 1 (125 rows: 3, no row: 1); without
\* line numbers it is 0 and the budget is the terminal width minus the
\* 3 columns of overhead per column only.
C14_GutterWidth ==
    GutterComputed =>
        LET n == Len(records)
        IN  IF show_line_numbers
            THEN /\ row_num_width >= 1
                 /\ n < 10 ^ row_num_width
                 /\ row_num_width > 1 => n >= 10 ^ (row_num_width - 1)
                 /\ n = 125 => row_num_width = 3
                 /\ n = 0 => row_num_width = 1
            ELSE /\ row_num_width = 0
                 /\ (Constrained /\ pc # "natural") =>
                        available_width =
                            SaturatingSub(terminal_width, 3 * Len(headers))

\* C14 witness: the 125-row table has been rendered with line numbers and
\* a three-digit gutter.
C14_Witness ==
    /\ Finished /\ show_line_numbers
    /\ Len(records) = 125 /\ row_num_width = 3
    /\ LastLine.row = 125 /\ LastLine.gutter.width = 6

\* the lines print_data_row wrote for record r
BlockOf(r) == {i \in DataLines : output[i].row = r}

\* the line breaks inside the texts of one printed line
LineBreaks(line) ==
    UNION {{<<c, k>> : k \in {j \in 1..Len(line.cells[c].text) :
                                line.cells[c].text[j] = "\n"}} :
           c \in 1..Len(line.cells)}

\* the number of lines record r takes on standard output
PhysicalLines(r) ==
    Cardinality(BlockOf(r))
    + Cardinality(UNION {{<<i, p>> : p \in LineBreaks(output[i])} : i \in BlockOf(r)})

Height(r) == MaxLines(WrappedCells(records[r], widths, wrap_mode))

RowsPrinted == IF mpc \in {"rows", "exit_ok"} THEN 1..(row_idx - 1) ELSE {}

\* C16: for every data row print_data_row emits exactly H lines, H the
\* largest number of wrapped lines over the row's cells; every column is
\* rendered on each of them (blank padding of the column width where the
\* cell has no such line); with line numbers the row number stands on the
\* first of the H lines only and the others carry a blank gutter of the
\* same width.
C16_RowBlockHeight ==
    \A r \in RowsPrinted :
        /\ PhysicalLines(r) = Height(r)
        /\ \A i \in BlockOf(r) :
              /\ Len(output[i].cells) = Len(headers)
              /\ \A c \in 1..Len(output[i].cells) :
                    LET cell == output[i].cells[c]
                    IN  /\ StrWidth(cell.text) + cell.padding >= widths[c]
                        /\ cell.text = <<>> => cell.padding = widths[c]
              /\ IF show_line_numbers
                 THEN /\ output[i].gutter.width = row_num_width + 3
                      /\ IF i - 1 \in BlockOf(r)
                         THEN output[i].gutter.mark = "blank"
                         ELSE /\ output[i].gutter.mark = "number"
                              /\ output[i].gutter.number = r
                 ELSE output[i].gutter.mark = "none"

\* C17: the lines come out as top border, header line, header separator,
\* then the blocks of the data rows in input order from row 1, and a bottom
\* border is the last line exactly under None; under Word and Char nothing
\* follows the block of the last data row.
C17_OutputOrder ==
    /\ \A i \in 1..Len(output) :
          /\ i = 1 <=> output[i].kind = "top"
          /\ i = 2 <=> output[i].kind = "header"
          /\ i = 3 <=> output[i].kind = "separator"
          /\ output[i].kind = "bottom" => wrap_mode = "None" /\ i = Len(output)
    /\ \A i \in 1..(Len(output) - 1) :
          LET a == output[i]
              b == output[i + 1]
          IN  /\ b.kind = "data" =>
                    IF a.kind = "data" THEN b.row \in {a.row, a.row + 1}
                    ELSE a.kind = "separator" /\ b.row = 1
              /\ b.kind = "bottom" =>
                    IF records = <<>> THEN a.kind = "separator"
                    ELSE a.kind = "data" /\ a.row = Len(records)
    /\ Finished =>
          /\ {output[i].row : i \in DataLines} = 1..Len(records)
          /\ wrap_mode = "None" <=> LastLine.kind = "bottom"
          /\ wrap_mode # "None" =>
                IF records = <<>> THEN LastLine.kind = "separator"
                ELSE LastLine.kind = "data" /\ LastLine.row = Len(records)

\* C17 witness: the two rows of a two-column table have been printed under
\* None, one line each, and the bottom border closes the table.
C17_Witness ==
    /\ Finished /\ wrap_mode = "None" /\ Len(records) = 2
    /\ Len(headers) = 2 /\ records[1][1] # <<>>
    /\ Len(output) = 6 /\ LastLine.kind = "bottom"
    /\ output[4].row = 1 /\ output[5].row = 2

====
